---------------------------- MODULE Spec2Model ----------------------------
(* A model of src/static/app.js: the browser script of the hospital         *)
(* administration pages.  One action is one event-loop task: the script's   *)
(* synchronous start-up, a timer callback, a submit event, or the           *)
(* continuation of an async function after one of its awaits.               *)
EXTENDS Integers, Sequences, FiniteSets, TLC

VARIABLES
    dataPage,   \* the data-page attribute of <body> (NoAttr when it is absent)
    dom,        \* the elements the document holds, by id ("form": the first <form>)
    pc,         \* "load" before the script has run, "run" afterwards
    listeners,  \* submit handlers attached by wireForm (addEventListener)
    intervals,  \* repeating timers registered by setInterval
    timeouts,   \* pending one-shot timers registered by setTimeout
    requests,   \* async calls suspended at an await, in the order they were issued
    form,       \* the contents of the form's fields
    tbody,      \* table id -> the rows of that table body
    totals,     \* summary node id -> its text
    notes       \* the children of the message host, in document order

(* History and environment: what the script itself does not hold.  Each     *)
(* specification drives the ones its properties speak about and leaves the  *)
(* others as they start.                                                    *)
VARIABLES
    window,     \* the age in seconds of each call completed in the last seconds
    issue,      \* per outstanding call: what issued it, what has overtaken it
    stale,      \* whether the table shows a response that arrived overtaken:
                \* what had issued its request (by) and the newer one's (over)
    server,     \* the collection the server holds
    snap        \* per outstanding call: the collection it was answered with

hist == <<window, issue, stale, server, snap>>

vars == <<dataPage, dom, pc, listeners, intervals, timeouts, requests, form,
          tbody, totals, notes, hist>>

---------------------------------------------------------------------------
(* Bounds of the model.                                                     *)

\* requests outstanding at once
MaxInFlight == 2
\* notifications displayed at once
MaxNotes == 2
\* records in one list response
MaxLen == 2

---------------------------------------------------------------------------
(* The document.                                                            *)

NoAttr == "<no data-page>"
Null == "<null>"

TableIds == {"patients-body", "appointments-body", "billing-body"}
TotalIds == {"total-patients", "total-appointments", "total-bills", "total-unpaid"}
ElementIds == {"js-messages", "form"} \cup TableIds \cup TotalIds

KnownPages == {"index", "patients", "appointments", "billing"}
RecordPages == {"patients", "appointments", "billing"}
PageAttrs == {NoAttr, "", "reports"} \cup KnownPages

\* document.getElementById(id) / document.querySelector("form")
getElementById(id) == IF id \in dom THEN id ELSE Null

\* const messageHost = document.getElementById("js-messages")
messageHost == getElementById("js-messages")

\* (mutant) a missing attribute read as the overview page
page_DefaultsToIndex == IF dataPage \in {NoAttr, ""} THEN "index" ELSE dataPage

\* const page = document.body.dataset.page || ""
page == IF dataPage = NoAttr THEN "" ELSE dataPage

\* Seconds a notification is displayed: setTimeout(..., 4000)
DisplaySeconds == 4

---------------------------------------------------------------------------
(* The four refresh routines and what each is bound to.                     *)

Routines == {"refreshOverview", "refreshPatients", "refreshAppointments",
             "refreshBills"}

\* the URL a refresh routine GETs
Endpoint(fn) ==
    CASE fn = "refreshOverview"     -> "/api/overview"
      [] fn = "refreshPatients"     -> "/api/patients"
      [] fn = "refreshAppointments" -> "/api/appointments"
      [] fn = "refreshBills"        -> "/api/bills"

\* the text of the notification a refresh routine shows when it fails
FailureText(fn) ==
    CASE fn = "refreshOverview"     -> "Unable to refresh overview."
      [] fn = "refreshPatients"     -> "Unable to refresh patients."
      [] fn = "refreshAppointments" -> "Unable to refresh appointments."
      [] fn = "refreshBills"        -> "Unable to refresh billing records."

\* the table body a list routine's renderer rewrites
TableOf(fn) ==
    CASE fn = "refreshPatients"     -> "patients-body"
      [] fn = "refreshAppointments" -> "appointments-body"
      [] fn = "refreshBills"        -> "billing-body"
      [] OTHER                      -> Null

\* the summary nodes refreshOverview writes, with the field each shows
TotalField(id) ==
    CASE id = "total-patients"     -> "patients"
      [] id = "total-appointments" -> "appointments"
      [] id = "total-bills"        -> "bills"
      [] id = "total-unpaid"       -> "unpaid"

---------------------------------------------------------------------------
(* Page bootstrap: what the script wires for each page value.               *)

\* (mutant) a bootstrap whose patients branch starts the appointments routine
PageRefresh_Swapped(p) ==
    CASE p = "index"        -> "refreshOverview"
      [] p = "patients"     -> "refreshAppointments"
      [] p = "appointments" -> "refreshAppointments"
      [] p = "billing"      -> "refreshBills"
      [] OTHER              -> Null

\* the refresh routine the bootstrap starts and repeats on a page
PageRefresh(p) ==
    CASE p = "index"        -> "refreshOverview"
      [] p = "patients"     -> "refreshPatients"
      [] p = "appointments" -> "refreshAppointments"
      [] p = "billing"      -> "refreshBills"
      [] OTHER              -> Null

\* the endpoint the page's form posts to (Null: the page wires no form)
PageFormEndpoint(p) ==
    CASE p = "patients"     -> "/api/patients"
      [] p = "appointments" -> "/api/appointments"
      [] p = "billing"      -> "/api/bills"
      [] OTHER              -> Null

\* the elements the script looks up on a page
Lookups(p) ==
    {"js-messages"}
      \cup (IF PageFormEndpoint(p) # Null THEN {"form"} ELSE {})
      \cup (IF p = "index" THEN TotalIds ELSE {})
      \cup (IF p \in RecordPages THEN {TableOf(PageRefresh(p))} ELSE {})

\* the period of the page's repeating timer, in seconds
PagePeriod(p) == IF p = "index" THEN 5 ELSE 7

---------------------------------------------------------------------------
(* JSON values as the script sees them.  A body is what response.json()     *)
(* settles with: a parsed value, or a rejection (the text is not JSON, or   *)
(* the connection broke while the body was read).                           *)

InvalidJson == [kind |-> "invalid"]
JNull == [kind |-> "null"]
JObj(fields) == [kind |-> "object", fields |-> fields]
JArr(items) == [kind |-> "array", items |-> items]

\* response.json() rejects: the await throws
Rejects(body) == body.kind = "invalid"

PatientA == [id |-> "1", name |-> "Ann", age |-> "34", gender |-> "F",
             contact |-> "555-0101", created_at |-> "2024-01-01"]
PatientB == [id |-> "2", name |-> "Bob", age |-> "51", gender |-> "M",
             created_at |-> "2024-01-02"]
AppointmentA == [id |-> "1", patient_id |-> "1", patient_name |-> "Ann",
                 date |-> "2024-02-01", time |-> "09:00", reason |-> "Checkup",
                 status |-> "scheduled"]
AppointmentB == [id |-> "2", patient_id |-> "2", patient_name |-> "Bob",
                 date |-> "2024-02-02", time |-> "10:30", reason |-> "X-ray",
                 status |-> "done"]
BillA == [id |-> "1", patient_id |-> "1", patient_name |-> "Ann",
          description |-> "Consultation", amount |-> "80", status |-> "unpaid",
          created_at |-> "2024-03-01"]
BillB == [id |-> "2", patient_id |-> "2", patient_name |-> "Bob",
          description |-> "X-ray", amount |-> "120", status |-> "paid",
          created_at |-> "2024-03-02"]

\* sequences of at most n distinct members of S
RECURSIVE DistinctSeqs(_, _)
DistinctSeqs(S, n) ==
    IF n = 0 THEN {<<>>}
    ELSE LET shorter == DistinctSeqs(S, n - 1)
             fresh == {pr \in shorter \X S :
                         \A k \in 1..Len(pr[1]) : pr[1][k] # pr[2]}
         IN  shorter \cup {Append(pr[1], pr[2]) : pr \in fresh}

\* what GET <list endpoint> may answer with: a sequence of records, a
\* sequence with a null in it, or something that is no sequence at all
ListBodies(S) ==
    {InvalidJson, JNull, JObj(<<>>)}
      \cup {JArr(q) : q \in DistinctSeqs({JObj(r) : r \in S}, MaxLen)}
      \cup {JArr(<<JObj(r), JNull>>) : r \in S}

PatientBodies == ListBodies({PatientA, PatientB})
AppointmentBodies == ListBodies({AppointmentA, AppointmentB})
BillBodies == ListBodies({BillA, BillB})

SummaryA == [patients |-> "3", appointments |-> "2", bills |-> "2", unpaid |-> "1"]
SummaryB == [patients |-> "4", appointments |-> "2", bills |-> "3"]

\* what GET /api/overview may answer with
OverviewBodies == {InvalidJson, JNull, JObj(SummaryA), JObj(SummaryB)}

\* what POST <create endpoint> may answer with
PostBodies ==
    {InvalidJson, JNull, JObj(<<>>), JObj([id |-> "3"]),
     JObj([error |-> "Name required"]), JObj([error |-> ""])}

---------------------------------------------------------------------------
(* Table renderers.                                                         *)

InitialRow == [kind |-> "initial", colspan |-> 1, cells |-> <<>>]

\* `${o.f}`: a missing field interpolates as "undefined"
Interp(o, f) == IF f \in DOMAIN o THEN o[f] ELSE "undefined"

\* `${o.f || ""}`
InterpOrEmpty(o, f) == IF f \in DOMAIN o /\ o[f] # "" THEN o[f] ELSE ""

\* '<tr><td colspan="6" class="muted">No ... yet.</td></tr>'
PlaceholderRow(text) == [kind |-> "placeholder", colspan |-> 6, cells |-> <<text>>]

patientRow(o) ==
    [kind |-> "data", colspan |-> 1,
     cells |-> <<Interp(o, "id"), Interp(o, "name"), Interp(o, "age"),
                 Interp(o, "gender"), InterpOrEmpty(o, "contact"),
                 Interp(o, "created_at")>>]

appointmentRow(o) ==
    [kind |-> "data", colspan |-> 1,
     cells |-> <<Interp(o, "id"),
                 Interp(o, "patient_name") \o " (" \o Interp(o, "patient_id") \o ")",
                 Interp(o, "date"), Interp(o, "time"), Interp(o, "reason"),
                 Interp(o, "status")>>]

billRow(o) ==
    [kind |-> "data", colspan |-> 1,
     cells |-> <<Interp(o, "id"),
                 Interp(o, "patient_name") \o " (" \o Interp(o, "patient_id") \o ")",
                 Interp(o, "description"), Interp(o, "amount"),
                 Interp(o, "status"), Interp(o, "created_at")>>]

RowOf(id, o) ==
    CASE id = "patients-body"     -> patientRow(o)
      [] id = "appointments-body" -> appointmentRow(o)
      [] id = "billing-body"      -> billRow(o)

PlaceholderOf(id) ==
    CASE id = "patients-body"     -> PlaceholderRow("No patients yet.")
      [] id = "appointments-body" -> PlaceholderRow("No appointments yet.")
      [] id = "billing-body"      -> PlaceholderRow("No billing records yet.")

\* items.forEach(item => body.appendChild(row of item)), from the i-th item on:
\* reading a field of a null item throws, and the rows appended so far stay
RECURSIVE AppendRows(_, _, _, _)
AppendRows(id, items, i, rows) ==
    IF i > Len(items) THEN [rows |-> rows, threw |-> FALSE]
    ELSE IF items[i].kind = "null" THEN [rows |-> rows, threw |-> TRUE]
    ELSE AppendRows(id, items, i + 1, Append(rows, RowOf(id, items[i].fields)))

\* (mutant) a renderer without the placeholder branch
RenderRows_NoPlaceholder(id, v) ==
    IF v.kind = "null" THEN [rows |-> <<>>, threw |-> TRUE]
    ELSE IF v.kind # "array" THEN [rows |-> <<>>, threw |-> FALSE]
         ELSE AppendRows(id, v.items, 1, <<>>)

\* the body of a renderer once the table body is found: clear, then the
\* placeholder for a falsy length, else one row per item
RenderRows(id, v) ==
    IF v.kind = "null" THEN [rows |-> <<>>, threw |-> TRUE]
    ELSE IF v.kind # "array" \/ Len(v.items) = 0
         THEN [rows |-> <<PlaceholderOf(id)>>, threw |-> FALSE]
         ELSE AppendRows(id, v.items, 1, <<>>)

\* (mutant) a renderer that does not clear the body before appending rows
Render_NoClear(id, v, tb) ==
    IF getElementById(id) = Null THEN [tbody |-> tb, threw |-> FALSE]
    ELSE LET r == RenderRows(id, v)
         IN  [tbody |-> [tb EXCEPT ![id] =
                           IF v.kind = "array" /\ Len(v.items) > 0
                           THEN tb[id] \o r.rows ELSE r.rows],
              threw |-> r.threw]

\* renderPatients / renderAppointments / renderBills on table body `id`
Render(id, v, tb) ==
    IF getElementById(id) = Null THEN [tbody |-> tb, threw |-> FALSE]
    ELSE LET r == RenderRows(id, v)
         IN  [tbody |-> [tb EXCEPT ![id] = r.rows], threw |-> r.threw]

renderPatients(v, tb) == Render("patients-body", v, tb)
renderAppointments(v, tb) == Render("appointments-body", v, tb)
renderBills(v, tb) == Render("billing-body", v, tb)

\* node.textContent = data.field: an undefined value shows as the empty text
TextOf(v, field) ==
    IF v.kind = "object" /\ field \in DOMAIN v.fields THEN v.fields[field] ELSE ""

InitialTotal == "-"

\* the try block of refreshOverview after the await
ShowOverview(v, tt) ==
    IF v.kind = "null" THEN [totals |-> tt, threw |-> TRUE]
    ELSE [totals |-> [id \in TotalIds |->
                        IF getElementById(id) # Null
                        THEN TextOf(v, TotalField(id)) ELSE tt[id]],
          threw |-> FALSE]

\* what a refresh routine does with a parsed response: the new screen, and
\* whether its try block threw
Apply(fn, v, tb, tt) ==
    CASE fn = "refreshOverview" ->
           LET r == ShowOverview(v, tt)
           IN  [tbody |-> tb, totals |-> r.totals, threw |-> r.threw]
      [] fn = "refreshPatients" ->
           LET r == renderPatients(v, tb)
           IN  [tbody |-> r.tbody, totals |-> tt, threw |-> r.threw]
      [] fn = "refreshAppointments" ->
           LET r == renderAppointments(v, tb)
           IN  [tbody |-> r.tbody, totals |-> tt, threw |-> r.threw]
      [] fn = "refreshBills" ->
           LET r == renderBills(v, tb)
           IN  [tbody |-> r.tbody, totals |-> tt, threw |-> r.threw]

\* the bodies the server may answer an outstanding call with
BodiesFor(r) ==
    CASE r.method = "POST"            -> PostBodies
      [] r.fn = "refreshOverview"     -> OverviewBodies
      [] r.fn = "refreshPatients"     -> PatientBodies
      [] r.fn = "refreshAppointments" -> AppointmentBodies
      [] r.fn = "refreshBills"        -> BillBodies

---------------------------------------------------------------------------
(* Notifier.                                                                *)

Remove(s, i) == [k \in 1..(Len(s) - 1) |-> IF k < i THEN s[k] ELSE s[k + 1]]

Min(S) == CHOOSE x \in S : \A y \in S : x <= y

\* identities of the notification elements: one not in use names a new element
NoteIds == 1..MaxNotes
FreeIds == NoteIds \ ({n.id : n \in {notes[k] : k \in 1..Len(notes)}}
                        \cup {t.item : t \in timeouts})

\* the bound on displayed notifications leaves room for one more
CanShow == messageHost = Null \/ FreeIds # {}

\* const item = document.createElement("div"), with its class and text;
\* age counts the seconds the element has been displayed (history)
NewNote(id, text, kind) == [id |-> id, text |-> text, kind |-> kind, age |-> 0]

\* (mutant) an expiry timer set a second too long
NewTimeout_Late(id) == [item |-> id, left |-> DisplaySeconds + 1]

\* setTimeout(() => item.remove(), 4000)
NewTimeout(id) == [item |-> id, left |-> DisplaySeconds]

\* (mutant) a notifier that never schedules the removal
showMessage_NoExpiry(text, kind) ==
    IF messageHost = Null
    THEN UNCHANGED <<notes, timeouts>>
    ELSE LET id == Min(FreeIds)
         IN  /\ notes' = Append(notes, NewNote(id, text, kind))
             /\ UNCHANGED timeouts

\* showMessage(text, kind)
showMessage(text, kind) ==
    IF messageHost = Null
    THEN UNCHANGED <<notes, timeouts>>
    ELSE LET id == Min(FreeIds)
         IN  /\ notes' = Append(notes, NewNote(id, text, kind))
             /\ timeouts' = timeouts \cup {NewTimeout(id)}

\* the callback of a notification's timer: item.remove()
RemoveItem(t) ==
    /\ notes' = SelectSeq(notes, LAMBDA n : n.id # t.item)
    /\ timeouts' = timeouts \ {t}

---------------------------------------------------------------------------
(* HTTP helpers and the routines that await them.  A request is an async    *)
(* call suspended at an await: stage "fetch" awaits fetch(url), stage       *)
(* "json" awaits response.json().  fn is the refresh routine awaiting a     *)
(* GET, and the onSuccess callback of the submit handler awaiting a POST.   *)

\* getJSON(url) called by refresh routine fn, up to its first await
GetRequest(fn) ==
    [method |-> "GET", url |-> Endpoint(fn), fn |-> fn,
     stage |-> "fetch", status |-> "pending"]

\* postJSON(endpoint, payload) called by the submit handler, up to its first await
PostRequest(endpoint, onSuccess) ==
    [method |-> "POST", url |-> endpoint, fn |-> onSuccess,
     stage |-> "fetch", status |-> "pending"]

\* how await fetch(...) may settle: a rejection (transport failure), or a
\* response whose status is successful or not
FetchOutcomes == {"reject", "ok", "notok"}

NetworkErrorText == "Failed to fetch"
SyntaxErrorText == "JSON.parse: unexpected character"
TypeErrorText == "data is null"

\* (mutant) postJSON ignoring the server's error field
PostErrorText_Generic(body) ==
    IF body.kind = "invalid" THEN SyntaxErrorText
    ELSE IF body.kind = "null" THEN TypeErrorText
    ELSE "Request failed"

\* error.message of what postJSON throws once response.json() has settled
PostErrorText(body) ==
    IF body.kind = "invalid" THEN SyntaxErrorText
    ELSE IF body.kind = "null" THEN TypeErrorText
    ELSE IF body.kind = "object" /\ "error" \in DOMAIN body.fields
            /\ body.fields["error"] # ""
         THEN body.fields["error"]
         ELSE "Request failed"

BlankForm == [name |-> "", age |-> ""]
FilledForm == [name |-> "Ann", age |-> "34"]
FormValues == {BlankForm, FilledForm}

\* wireForm("form", endpoint, onSuccess)
wireForm(endpoint, onSuccess) ==
    IF getElementById("form") = Null THEN <<>>
    ELSE <<[endpoint |-> endpoint, onSuccess |-> onSuccess]>>

---------------------------------------------------------------------------
(* Actions.                                                                 *)

Init ==
    /\ dataPage \in PageAttrs
    /\ dom \in {ElementIds} \cup {ElementIds \ {e} : e \in Lookups(page)}
    /\ pc = "load"
    /\ listeners = <<>>
    /\ intervals = <<>>
    /\ timeouts = {}
    /\ requests = <<>>
    /\ form = BlankForm
    /\ tbody = [id \in TableIds |-> <<InitialRow>>]
    /\ totals = [id \in TotalIds |-> InitialTotal]
    /\ notes = <<>>
    /\ window = <<>>
    /\ issue = <<>>
    /\ stale = [by |-> "no", over |-> "no"]
    /\ server = <<>>
    /\ snap = <<>>

\* the script runs: for a known page, wire the form (record pages), start
\* the first refresh and register the repeating timer
Bootstrap ==
    /\ pc = "load"
    /\ pc' = "run"
    /\ LET fn == PageRefresh(page)
       IN  IF fn = Null
           THEN UNCHANGED <<listeners, requests, intervals>>
           ELSE /\ listeners' = IF PageFormEndpoint(page) = Null THEN <<>>
                                ELSE wireForm(PageFormEndpoint(page), fn)
                /\ requests' = <<GetRequest(fn)>>
                /\ intervals' = <<[fn |-> fn, period |-> PagePeriod(page),
                                   left |-> PagePeriod(page)]>>
    /\ UNCHANGED <<dataPage, dom, timeouts, form, tbody, totals, notes>>

\* the user edits the form
TypeInForm ==
    /\ pc = "run"
    /\ getElementById("form") # Null
    /\ \E f \in FormValues \ {form} : form' = f
    /\ UNCHANGED <<dataPage, dom, pc, listeners, intervals, timeouts, requests,
                   tbody, totals, notes>>

\* a submit event on the form: the handler runs up to await postJSON(...)
Submit(k) ==
    /\ pc = "run"
    /\ Len(requests) < MaxInFlight
    /\ requests' = Append(requests, PostRequest(listeners[k].endpoint,
                                                 listeners[k].onSuccess))
    /\ UNCHANGED <<dataPage, dom, pc, listeners, intervals, timeouts, form,
                   tbody, totals, notes>>

\* (mutant) a tick that skips the refresh while a call is outstanding
IntervalCallback_SkipsWhenBusy(k) ==
    /\ Len(requests) < MaxInFlight
    /\ requests' = IF requests = <<>>
                   THEN Append(requests, GetRequest(intervals[k].fn))
                   ELSE requests
    /\ intervals' = [intervals EXCEPT ![k].left = intervals[k].period]
    /\ UNCHANGED <<dataPage, dom, pc, listeners, timeouts, form, tbody, totals,
                   notes>>

\* (mutant) a timer that is cleared by its first tick
IntervalCallback_OneShot(k) ==
    /\ Len(requests) < MaxInFlight
    /\ requests' = Append(requests, GetRequest(intervals[k].fn))
    /\ intervals' = Remove(intervals, k)
    /\ UNCHANGED <<dataPage, dom, pc, listeners, timeouts, form, tbody, totals,
                   notes>>

\* the callback of the repeating timer: the refresh routine runs up to its await
IntervalCallback(k) ==
    /\ Len(requests) < MaxInFlight
    /\ requests' = Append(requests, GetRequest(intervals[k].fn))
    /\ intervals' = [intervals EXCEPT ![k].left = intervals[k].period]
    /\ UNCHANGED <<dataPage, dom, pc, listeners, timeouts, form, tbody, totals,
                   notes>>

\* the callback of a notification's timer
TimeoutCallback(t) ==
    /\ RemoveItem(t)
    /\ UNCHANGED <<dataPage, dom, pc, listeners, intervals, requests, form,
                   tbody, totals>>

\* (mutant) a catch block that tries the request again
RefreshFailed_Retries(i) ==
    /\ CanShow
    /\ showMessage(FailureText(requests[i].fn), "error")
    /\ requests' = Append(Remove(requests, i), GetRequest(requests[i].fn))
    /\ UNCHANGED <<form, tbody, totals>>

\* (mutant) a catch block that also empties the routine's table
RefreshFailed_ClearsScreen(i) ==
    /\ CanShow
    /\ showMessage(FailureText(requests[i].fn), "error")
    /\ requests' = Remove(requests, i)
    /\ tbody' = [id \in TableIds |-> <<>>]
    /\ totals' = [id \in TotalIds |-> ""]
    /\ UNCHANGED form

\* the catch block of a refresh routine
RefreshFailed(i) ==
    /\ CanShow
    /\ showMessage(FailureText(requests[i].fn), "error")
    /\ requests' = Remove(requests, i)
    /\ UNCHANGED <<form, tbody, totals>>

\* (mutant) a catch block that abandons the other submissions in flight
SubmitFailed_CancelsOthers(i, text) ==
    /\ CanShow
    /\ showMessage(text, "error")
    /\ requests' = SelectSeq(requests, LAMBDA r : r.method = "GET")
    /\ UNCHANGED <<form, tbody, totals>>

\* (mutant) a catch block that also resets the form
SubmitFailed_ResetsForm(i, text) ==
    /\ CanShow
    /\ form' = BlankForm
    /\ showMessage(text, "error")
    /\ requests' = Remove(requests, i)
    /\ UNCHANGED <<tbody, totals>>

\* the catch block of the submit handler
SubmitFailed(i, text) ==
    /\ CanShow
    /\ showMessage(text, "error")
    /\ requests' = Remove(requests, i)
    /\ UNCHANGED <<form, tbody, totals>>

\* (mutant) the try block without form.reset()
SubmitSucceeded_NoReset(i) ==
    /\ CanShow
    /\ showMessage("Saved successfully.", "success")
    /\ requests' = Append(Remove(requests, i), GetRequest(requests[i].fn))
    /\ UNCHANGED <<form, tbody, totals>>

\* (mutant) the try block without the onSuccess call
SubmitSucceeded_NoRefresh(i) ==
    /\ CanShow
    /\ form' = BlankForm
    /\ showMessage("Saved successfully.", "success")
    /\ requests' = Remove(requests, i)
    /\ UNCHANGED <<tbody, totals>>

\* the try block of the submit handler after await postJSON(...) returned
SubmitSucceeded(i) ==
    /\ CanShow
    /\ form' = BlankForm
    /\ showMessage("Saved successfully.", "success")
    /\ requests' = Append(Remove(requests, i), GetRequest(requests[i].fn))
    /\ UNCHANGED <<tbody, totals>>

\* await fetch(...) settles for the i-th outstanding call
FetchSettles(i, outcome) ==
    /\ requests[i].stage = "fetch"
    /\ IF requests[i].method = "GET"
       THEN IF outcome = "ok"
            THEN /\ requests' = [requests EXCEPT ![i].stage = "json",
                                                 ![i].status = "ok"]
                 /\ UNCHANGED <<form, tbody, totals, notes, timeouts>>
            ELSE RefreshFailed(i)
       ELSE IF outcome = "reject"
            THEN SubmitFailed(i, NetworkErrorText)
            ELSE /\ requests' = [requests EXCEPT ![i].stage = "json",
                                                 ![i].status = outcome]
                 /\ UNCHANGED <<form, tbody, totals, notes, timeouts>>
    /\ UNCHANGED <<dataPage, dom, pc, listeners, intervals>>

\* (mutant) a continuation that drops the response of an overtaken refresh
JsonSettles_DiscardsOvertaken(i, body) ==
    /\ requests[i].stage = "json"
    /\ IF requests[i].method = "GET"
       THEN IF Rejects(body)
            THEN RefreshFailed(i)
            ELSE LET r == Apply(requests[i].fn, body, tbody, totals)
                 IN  IF i <= Len(issue) /\ issue[i].overtaken # "no"
                     THEN /\ requests' = Remove(requests, i)
                          /\ UNCHANGED <<form, tbody, totals, notes, timeouts>>
                     ELSE IF r.threw
                     THEN /\ CanShow
                          /\ showMessage(FailureText(requests[i].fn), "error")
                          /\ requests' = Remove(requests, i)
                          /\ tbody' = r.tbody
                          /\ totals' = r.totals
                          /\ UNCHANGED form
                     ELSE /\ requests' = Remove(requests, i)
                          /\ tbody' = r.tbody
                          /\ totals' = r.totals
                          /\ UNCHANGED <<form, notes, timeouts>>
       ELSE IF Rejects(body) \/ requests[i].status # "ok"
            THEN SubmitFailed(i, PostErrorText(body))
            ELSE SubmitSucceeded(i)
    /\ UNCHANGED <<dataPage, dom, pc, listeners, intervals>>

\* response.json() settles for the i-th outstanding call
JsonSettles(i, body) ==
    /\ requests[i].stage = "json"
    /\ IF requests[i].method = "GET"
       THEN IF Rejects(body)
            THEN RefreshFailed(i)
            ELSE LET r == Apply(requests[i].fn, body, tbody, totals)
                 IN  IF r.threw
                     THEN /\ CanShow
                          /\ showMessage(FailureText(requests[i].fn), "error")
                          /\ requests' = Remove(requests, i)
                          /\ tbody' = r.tbody
                          /\ totals' = r.totals
                          /\ UNCHANGED form
                     ELSE /\ requests' = Remove(requests, i)
                          /\ tbody' = r.tbody
                          /\ totals' = r.totals
                          /\ UNCHANGED <<form, notes, timeouts>>
       ELSE IF Rejects(body) \/ requests[i].status # "ok"
            THEN SubmitFailed(i, PostErrorText(body))
            ELSE SubmitSucceeded(i)
    /\ UNCHANGED <<dataPage, dom, pc, listeners, intervals>>

\* a repeating timer fires
IntervalFires == \E k \in 1..Len(intervals) : IntervalCallback(k)

\* a notification's timer fires
TimeoutFires == \E t \in timeouts : TimeoutCallback(t)

Settles ==
    \E i \in 1..Len(requests) :
        \/ \E outcome \in FetchOutcomes : FetchSettles(i, outcome)
        \/ \E body \in BodiesFor(requests[i]) : JsonSettles(i, body)

Submits == \E k \in 1..Len(listeners) : Submit(k)

Next ==
    \/ Bootstrap /\ UNCHANGED hist
    \/ TypeInForm /\ UNCHANGED hist
    \/ Submits /\ UNCHANGED hist
    \/ IntervalFires /\ UNCHANGED hist
    \/ TimeoutFires /\ UNCHANGED hist
    \/ Settles /\ UNCHANGED hist

Spec == Init /\ [][Next]_vars

---------------------------------------------------------------------------
(* Time.  Delays are counted in seconds: left is what remains of a timer's  *)
(* delay.  A timer's callback runs at or after the moment its delay has     *)
(* elapsed, never before; a due timer waits at left = 0 until the event     *)
(* loop runs its callback.                                                  *)

\* the timed specification follows the overview page, whose script attaches
\* no submit handler; its document may lack one element the script looks up
TimedPages == {"index"}

TimedInit ==
    /\ Init
    /\ dataPage \in TimedPages

\* one second passes
Advance ==
    /\ pc = "run"
    /\ \/ \E t \in timeouts : t.left > 0
       \/ \E k \in 1..Len(intervals) : intervals[k].left > 0
    /\ timeouts' = {[t EXCEPT !.left = IF @ > 0 THEN @ - 1 ELSE 0] : t \in timeouts}
    /\ intervals' = [k \in 1..Len(intervals) |->
                       [intervals[k] EXCEPT !.left = IF @ > 0 THEN @ - 1 ELSE 0]]
    /\ notes' = [k \in 1..Len(notes) |->
                   [notes[k] EXCEPT !.age = IF @ < DisplaySeconds THEN @ + 1 ELSE @]]
    /\ UNCHANGED <<dataPage, dom, pc, listeners, requests, form, tbody, totals>>

\* a repeating timer whose period has elapsed fires
IntervalDue == \E k \in 1..Len(intervals) :
                   intervals[k].left = 0 /\ IntervalCallback(k)

\* the timer of notification element id, its delay elapsed, fires
Expires(id) == \E t \in timeouts :
                   t.item = id /\ t.left = 0 /\ TimeoutCallback(t)

TimeoutDue == \E id \in NoteIds : Expires(id)

TimedNext ==
    \/ Bootstrap /\ UNCHANGED hist
    \/ TypeInForm /\ UNCHANGED hist
    \/ Advance /\ UNCHANGED hist
    \/ IntervalDue /\ UNCHANGED hist
    \/ TimeoutDue /\ UNCHANGED hist
    \/ Settles /\ UNCHANGED hist

\* time passes, and the event loop runs the callback of every due timer
TimedSpec ==
    /\ TimedInit
    /\ [][TimedNext]_vars
    /\ WF_vars(Advance /\ UNCHANGED hist)
    /\ \A id \in NoteIds : WF_vars(Expires(id) /\ UNCHANGED hist)

---------------------------------------------------------------------------
(* The timed specification with the history of completions: window holds    *)
(* the age of every call - refresh or submission - that ended within the    *)
(* last DisplaySeconds seconds, oldest first.                               *)

\* one second later: every age grows, and a completion older than the
\* display duration leaves the window
Aged(w) ==
    SelectSeq([k \in 1..Len(w) |-> w[k] + 1], LAMBDA a : a <= DisplaySeconds)

WindowNext ==
    \/ Bootstrap /\ UNCHANGED hist
    \/ TypeInForm /\ UNCHANGED hist
    \/ Advance /\ window' = Aged(window) /\ UNCHANGED <<issue, stale, server, snap>>
    \/ IntervalDue /\ UNCHANGED hist
    \/ TimeoutDue /\ UNCHANGED hist
    \/ \E i \in 1..Len(requests) : \E outcome \in FetchOutcomes :
          /\ FetchSettles(i, outcome)
          /\ window' = IF Len(requests') < Len(requests)
                       THEN Append(window, 0) ELSE window
          /\ UNCHANGED <<issue, stale, server, snap>>
    \/ \E i \in 1..Len(requests) : \E body \in BodiesFor(requests[i]) :
          /\ JsonSettles(i, body)
          /\ window' = Append(window, 0)
          /\ UNCHANGED <<issue, stale, server, snap>>

WindowSpec == TimedInit /\ [][WindowNext]_vars

---------------------------------------------------------------------------
(* The specification with the history of issue order.  requests holds the   *)
(* outstanding calls in the order they were issued; issue[i] tells what     *)
(* issued the i-th ("boot", "timer", "submit": the refresh a successful     *)
(* submission starts, "form": the POST of a submit event) and, as           *)
(* overtaken, what issued the latest later-issued refresh whose response    *)
(* has been rendered already ("no": none).                                  *)

\* the specification follows the record pages, in a document without the
\* message host: the order of responses does not depend on notifications,
\* and none is then kept in the state
OrderPages == RecordPages

OrderInit ==
    /\ Init
    /\ dataPage \in OrderPages
    /\ dom = ElementIds \ {"js-messages"}

Issued(origin) == [origin |-> origin, overtaken |-> "no"]

\* the continuation of the i-th call on body renders body into the table
Renders(i, body) ==
    /\ requests[i].method = "GET"
    /\ ~Rejects(body)
    /\ getElementById(TableOf(requests[i].fn)) # Null
    /\ ~Apply(requests[i].fn, body, tbody, totals).threw

\* the response of the i-th call is rendered: the refreshes issued before
\* it and still outstanding are overtaken
Overtake(i) ==
    [j \in 1..Len(issue) |->
        IF j < i /\ requests[j].method = "GET"
        THEN [issue[j] EXCEPT !.overtaken = issue[i].origin]
        ELSE issue[j]]

OrderNext ==
    \/ /\ Bootstrap
       /\ issue' = [k \in 1..Len(requests') |-> Issued("boot")]
       /\ UNCHANGED <<window, stale, server, snap>>
    \/ TypeInForm /\ UNCHANGED hist
    \/ /\ Submits
       /\ issue' = Append(issue, Issued("form"))
       /\ UNCHANGED <<window, stale, server, snap>>
    \/ /\ IntervalFires
       /\ issue' = Append(issue, Issued("timer"))
       /\ UNCHANGED <<window, stale, server, snap>>
    \/ \E i \in 1..Len(requests) : \E outcome \in FetchOutcomes :
          /\ FetchSettles(i, outcome)
          /\ issue' = IF Len(requests') < Len(requests)
                      THEN Remove(issue, i) ELSE issue
          /\ UNCHANGED <<window, stale, server, snap>>
    \/ \E i \in 1..Len(requests) : \E body \in BodiesFor(requests[i]) :
          /\ JsonSettles(i, body)
          /\ issue' = IF Renders(i, body) THEN Remove(Overtake(i), i)
                      ELSE IF Len(requests') = Len(requests)
                           THEN Append(Remove(issue, i), Issued("submit"))
                           ELSE Remove(issue, i)
          /\ stale' = IF Renders(i, body)
                      THEN [by |-> IF issue[i].overtaken = "no" THEN "no"
                                   ELSE issue[i].origin,
                            over |-> issue[i].overtaken]
                      ELSE IF tbody' # tbody THEN [by |-> "no", over |-> "no"]
                           ELSE stale
          /\ UNCHANGED <<window, server, snap>>

OrderSpec == OrderInit /\ [][OrderNext]_vars

---------------------------------------------------------------------------
(* The specification with the server.  server is the collection the server  *)
(* holds; it may change at any moment, and may stop changing.  The user     *)
(* leaves the form alone, and every GET is answered with a success status   *)
(* and the collection the server holds at that moment (snap[i], for the     *)
(* i-th outstanding call), which arrives at any later moment.               *)

ServerPages == {"patients"}

ServerInit ==
    /\ Init
    /\ dataPage \in ServerPages
    /\ dom = ElementIds

\* the records the server of a page may hold
RecordsOf(p) ==
    CASE p = "patients"     -> {PatientA, PatientB}
      [] p = "appointments" -> {AppointmentA, AppointmentB}
      [] p = "billing"      -> {BillA, BillB}

Collections(p) == DistinctSeqs(RecordsOf(p), MaxLen)

\* the JSON body of a collection
AsJson(c) == JArr([k \in 1..Len(c) |-> JObj(c[k])])

ServerChanges ==
    /\ pc = "run"
    /\ \E c \in Collections(page) \ {server} : server' = c
    /\ UNCHANGED <<dataPage, dom, pc, listeners, intervals, timeouts, requests,
                   form, tbody, totals, notes, window, issue, stale, snap>>

\* the script runs: the initial GET
Loads ==
    /\ Bootstrap
    /\ snap' = [k \in 1..Len(requests') |-> <<>>]
    /\ UNCHANGED <<window, issue, stale, server>>

\* the timer ticks: one more GET
Polls ==
    /\ IntervalFires
    /\ snap' = Append(snap, <<>>)
    /\ UNCHANGED <<window, issue, stale, server>>

\* the server answers the i-th call with what it holds
Answers(i) ==
    /\ i \in 1..Len(requests)
    /\ FetchSettles(i, "ok")
    /\ snap' = [snap EXCEPT ![i] = server]
    /\ UNCHANGED <<window, issue, stale, server>>

\* the body of the i-th call's response has arrived
Arrives(i) ==
    /\ i \in 1..Len(requests)
    /\ JsonSettles(i, AsJson(snap[i]))
    /\ snap' = Remove(snap, i)
    /\ UNCHANGED <<window, issue, stale, server>>

ServerNext ==
    \/ Loads
    \/ ServerChanges
    \/ Polls
    \/ \E i \in 1..Len(requests) : Answers(i)
    \/ \E i \in 1..Len(requests) : Arrives(i)

\* the script runs, the timer keeps ticking, and every GET is eventually
\* answered: the oldest outstanding call always gets its response
ServerSpec ==
    /\ ServerInit
    /\ [][ServerNext]_vars
    /\ WF_vars(Loads)
    /\ WF_vars(Polls)
    /\ WF_vars(Answers(1) \/ Arrives(1))

---------------------------------------------------------------------------
(* The cases the properties below speak about.  A step is recognised by the *)
(* action it takes: JsonSettles(i, body) and FetchSettles(i, outcome) are   *)
(* the continuations of the i-th outstanding call on the given input.       *)

\* the i-th call is a submission whose POST was answered with a success
\* status, and body is JSON
SubmissionSucceeds(i, body) ==
    /\ requests[i].method = "POST"
    /\ requests[i].stage = "json"
    /\ requests[i].status = "ok"
    /\ body.kind # "invalid"

\* the i-th call is a submission whose POST was answered with a non-success
\* status, and body is an object carrying a non-empty error message
SubmissionRefused(i, body) ==
    /\ requests[i].method = "POST"
    /\ requests[i].stage = "json"
    /\ requests[i].status = "notok"
    /\ body.kind = "object"
    /\ "error" \in DOMAIN body.fields
    /\ body.fields["error"] # ""

\* the step appended exactly one notification, of the given kind and text
OneNoteAdded(kind, text) ==
    /\ Len(notes') = Len(notes) + 1
    /\ SubSeq(notes', 1, Len(notes)) = notes
    /\ notes'[Len(notes')].kind = kind
    /\ notes'[Len(notes')].text = text

\* the message each refresh endpoint's routine reports on failure
GenericMessage(url) ==
    CASE url = "/api/overview"     -> "Unable to refresh overview."
      [] url = "/api/patients"     -> "Unable to refresh patients."
      [] url = "/api/appointments" -> "Unable to refresh appointments."
      [] url = "/api/bills"        -> "Unable to refresh billing records."

\* the list endpoint and the table of each record page
ListUrl(p) ==
    CASE p = "patients"     -> "/api/patients"
      [] p = "appointments" -> "/api/appointments"
      [] p = "billing"      -> "/api/bills"
      [] p = "index"        -> "/api/overview"

TableOfPage(p) ==
    CASE p = "patients"     -> "patients-body"
      [] p = "appointments" -> "appointments-body"
      [] p = "billing"      -> "billing-body"

Displayed(kind, text) ==
    \E k \in 1..Len(notes) : notes[k].kind = kind /\ notes[k].text = text

---------------------------------------------------------------------------
(* C1: as stated - a successful submission resets the form and produces     *)
(* exactly one success notification and no error notification.  Violated    *)
(* when the document has no message host: nothing is displayed.             *)
C1_AsStated ==
    [][\A i \in 1..Len(requests) : \A body \in PostBodies :
         (SubmissionSucceeds(i, body) /\ JsonSettles(i, body))
           => /\ form' = BlankForm
              /\ OneNoteAdded("success", "Saved successfully.")]_vars

(* C1: amended - a successful submission resets the form; when the message  *)
(* host exists it appends exactly one notification, a success one, and      *)
(* when the host is absent it displays nothing.                             *)
C1_SuccessResetsAndNotifiesOnce ==
    [][\A i \in 1..Len(requests) : \A body \in PostBodies :
         (SubmissionSucceeds(i, body) /\ JsonSettles(i, body))
           => /\ form' = BlankForm
              /\ IF messageHost # Null
                 THEN OneNoteAdded("success", "Saved successfully.")
                 ELSE notes' = notes /\ notes = <<>>]_vars

\* a success notification is displayed over a reset form, with the refresh
\* the handler started still outstanding
C1_Witness ==
    /\ Displayed("success", "Saved successfully.")
    /\ form = BlankForm
    /\ \E i \in 1..Len(requests) : requests[i].method = "GET"

---------------------------------------------------------------------------
(* C2: as stated - a submission refused with error message e leaves the     *)
(* form unmodified, invokes neither the reset nor onSuccess, and produces   *)
(* exactly one error notification whose text contains e.  Violated when     *)
(* the document has no message host.                                        *)
C2_AsStated ==
    [][\A i \in 1..Len(requests) : \A body \in PostBodies :
         (SubmissionRefused(i, body) /\ JsonSettles(i, body))
           => /\ form' = form
              /\ requests' = Remove(requests, i)
              /\ OneNoteAdded("error", body.fields["error"])]_vars

(* C2: amended - a submission refused with error message e leaves the form  *)
(* unmodified and starts no refresh; when the message host exists it        *)
(* appends exactly one notification, an error one whose text is e, and      *)
(* when the host is absent it displays nothing.                             *)
C2_RefusalKeepsFormAndNotifiesOnce ==
    [][\A i \in 1..Len(requests) : \A body \in PostBodies :
         (SubmissionRefused(i, body) /\ JsonSettles(i, body))
           => /\ form' = form
              /\ requests' = Remove(requests, i)
              /\ IF messageHost # Null
                 THEN OneNoteAdded("error", body.fields["error"])
                 ELSE notes' = notes /\ notes = <<>>]_vars

\* the server's message is displayed as an error over a form still filled in
C2_Witness ==
    /\ Displayed("error", "Name required")
    /\ form = FilledForm

---------------------------------------------------------------------------
(* C3: as stated - for each refresh routine, a GET that fails (fetch        *)
(* rejects, or the status is not successful) leaves the tables and the      *)
(* summary values as they were and produces exactly one error notification  *)
(* with the routine's generic message.  Violated when the document has no   *)
(* message host.                                                            *)
C3_AsStated ==
    [][\A i \in 1..Len(requests) : \A outcome \in {"reject", "notok"} :
         (requests[i].method = "GET" /\ FetchSettles(i, outcome))
           => /\ tbody' = tbody
              /\ totals' = totals
              /\ OneNoteAdded("error", GenericMessage(requests[i].url))]_vars

(* C3: amended - for each refresh routine, a GET that fails leaves the      *)
(* tables and the summary values as they were; when the message host        *)
(* exists it appends exactly one notification, an error one with the        *)
(* routine's generic message, and when the host is absent it displays       *)
(* nothing.                                                                 *)
C3_FailedGetKeepsScreenAndNotifiesOnce ==
    [][\A i \in 1..Len(requests) : \A outcome \in {"reject", "notok"} :
         (requests[i].method = "GET" /\ FetchSettles(i, outcome))
           => /\ tbody' = tbody
              /\ totals' = totals
              /\ IF messageHost # Null
                 THEN OneNoteAdded("error", GenericMessage(requests[i].url))
                 ELSE notes' = notes /\ notes = <<>>]_vars

\* a refresh failure is reported while the table still shows the two rows of
\* an earlier response and no call is outstanding
C3_Witness ==
    /\ page \in RecordPages
    /\ Displayed("error", GenericMessage(ListUrl(page)))
    /\ Len(tbody[TableOfPage(page)]) = 2
    /\ requests = <<>>

---------------------------------------------------------------------------
(* C4: each renderer, given an empty collection, leaves its table body      *)
(* holding exactly one row, the placeholder spanning six columns, whatever  *)
(* the body held before.                                                    *)
C4_EmptyCollectionRendersPlaceholder ==
    [][\A i \in 1..Len(requests) :
         (/\ requests[i].method = "GET"
          /\ requests[i].stage = "json"
          /\ page \in RecordPages
          /\ getElementById(TableOfPage(page)) # Null
          /\ JsonSettles(i, JArr(<<>>)))
           => LET rows == tbody'[TableOfPage(page)]
              IN  /\ Len(rows) = 1
                  /\ rows[1].kind = "placeholder"
                  /\ rows[1].colspan = 6]_vars

\* a table body holds the placeholder row alone, spanning six columns
C4_Witness ==
    /\ page \in RecordPages
    /\ Len(tbody[TableOfPage(page)]) = 1
    /\ tbody[TableOfPage(page)][1].kind = "placeholder"
    /\ tbody[TableOfPage(page)][1].colspan = 6

---------------------------------------------------------------------------
(* C5: each renderer, given a non-empty collection of n records, leaves its *)
(* table body holding exactly n rows, the k-th built from the k-th record,  *)
(* with no row of an earlier render and no placeholder row.                 *)
C5_RowsFollowRecordsInOrder ==
    [][\A i \in 1..Len(requests) : \A body \in BodiesFor(requests[i]) :
         (/\ requests[i].method = "GET"
          /\ requests[i].stage = "json"
          /\ page \in RecordPages
          /\ getElementById(TableOfPage(page)) # Null
          /\ body.kind = "array"
          /\ Len(body.items) > 0
          /\ \A k \in 1..Len(body.items) : body.items[k].kind = "object"
          /\ JsonSettles(i, body))
           => LET rows == tbody'[TableOfPage(page)]
              IN  /\ Len(rows) = Len(body.items)
                  /\ \A k \in 1..Len(rows) :
                       /\ rows[k].kind = "data"
                       /\ Len(rows[k].cells) = 6
                       /\ rows[k].cells[1] = body.items[k].fields["id"]
                       /\ rows[k] = RowOf(TableOfPage(page), body.items[k].fields)]_vars

\* a table shows record 2 above record 1, as the response listed them
C5_Witness ==
    /\ page \in RecordPages
    /\ Len(tbody[TableOfPage(page)]) = 2
    /\ tbody[TableOfPage(page)][1].kind = "data"
    /\ tbody[TableOfPage(page)][1].cells[1] = "2"
    /\ tbody[TableOfPage(page)][2].cells[1] = "1"

---------------------------------------------------------------------------
(* C6: on a known page only that page is wired: every outstanding GET or    *)
(* POST goes to the page's own endpoint (POSTs on record pages only), the   *)
(* form handler and the repeating timer are the page's own, and no table    *)
(* or summary of another page is ever rendered.                             *)
C6_OnlyOwnPageWired ==
    dataPage \in KnownPages =>
      /\ \A i \in 1..Len(requests) :
           /\ requests[i].url = ListUrl(dataPage)
           /\ requests[i].method = "POST" => dataPage \in RecordPages
      /\ \A k \in 1..Len(listeners) :
           /\ dataPage \in RecordPages
           /\ listeners[k].endpoint = ListUrl(dataPage)
           /\ Endpoint(listeners[k].onSuccess) = ListUrl(dataPage)
      /\ \A k \in 1..Len(intervals) :
           Endpoint(intervals[k].fn) = ListUrl(dataPage)
      /\ \A t \in TableIds :
           (dataPage = "index" \/ t # TableOfPage(dataPage))
             => tbody[t] = <<InitialRow>>
      /\ dataPage # "index" => totals = [id \in TotalIds |-> InitialTotal]

\* the patients page at work: its table rendered, a submission outstanding,
\* its timer registered
C6_Witness ==
    /\ dataPage = "patients"
    /\ tbody["patients-body"] # <<InitialRow>>
    /\ \E i \in 1..Len(requests) : requests[i].method = "POST"
    /\ Len(intervals) = 1

---------------------------------------------------------------------------
(* C7: for a data-page value outside {index, patients, appointments,        *)
(* billing}, the absent attribute included, the script is inert: no form    *)
(* handler, no timer, no request and no notification, ever.                 *)
C7_UnknownPageIsInert ==
    dataPage \notin KnownPages =>
      /\ listeners = <<>>
      /\ intervals = <<>>
      /\ timeouts = {}
      /\ requests = <<>>
      /\ notes = <<>>
      /\ tbody = [id \in TableIds |-> <<InitialRow>>]
      /\ totals = [id \in TotalIds |-> InitialTotal]

\* the script has run on a document without the attribute and the user has
\* filled in the form
C7_Witness ==
    /\ dataPage = NoAttr
    /\ pc = "run"
    /\ form = FilledForm

---------------------------------------------------------------------------
(* C8: on a known page the bootstrap issues one initial refresh and         *)
(* registers exactly one repeating timer, with the page's routine and       *)
(* period; the timer stays registered for ever; every tick issues one GET   *)
(* to the page's endpoint whatever is outstanding or has failed; and a      *)
(* tick that issues its GET can be taken whenever the model's bound on     *)
(* outstanding calls leaves room for it.                                    *)
C8_TimerRegisteredOnceAndNeverCancelled ==
    /\ [](pc = "run" /\ dataPage \in KnownPages
            => /\ Len(intervals) = 1
               /\ Endpoint(intervals[1].fn) = ListUrl(dataPage)
               /\ intervals[1].period = (IF dataPage = "index" THEN 5 ELSE 7))
    /\ [](pc = "run" /\ dataPage \in KnownPages /\ Len(requests) < MaxInFlight
            => ENABLED <<IntervalFires /\ UNCHANGED hist>>_vars)
    /\ [][(Bootstrap /\ dataPage \in KnownPages)
            => /\ Len(requests') = 1
               /\ requests'[1].method = "GET"
               /\ requests'[1].url = ListUrl(dataPage)
               /\ requests'[1].stage = "fetch"]_vars
    /\ [][\A k \in 1..Len(intervals) :
            IntervalCallback(k)
              => /\ Len(requests') = Len(requests) + 1
                 /\ SubSeq(requests', 1, Len(requests)) = requests
                 /\ requests'[Len(requests')].method = "GET"
                 /\ requests'[Len(requests')].url = ListUrl(dataPage)
                 /\ requests'[Len(requests')].stage = "fetch"
                 /\ Len(intervals') = 1]_vars

\* a tick has issued a second GET while the first is still outstanding and
\* a refresh failure is on display
C8_Witness ==
    /\ dataPage \in KnownPages
    /\ Len(requests) = 2
    /\ \A i \in 1..2 : requests[i].method = "GET"
    /\ Displayed("error", GenericMessage(ListUrl(dataPage)))
    /\ Len(intervals) = 1

---------------------------------------------------------------------------
(* C9: on a record page a successful submission starts exactly one refresh, *)
(* a GET to the page's list endpoint issued with the form reset; a failed   *)
(* submission (fetch rejected, body not JSON, or a non-success status)      *)
(* starts none.                                                             *)
C9_RefreshAfterSuccessOnly ==
    [][/\ \A i \in 1..Len(requests) : \A body \in PostBodies :
            (SubmissionSucceeds(i, body) /\ JsonSettles(i, body))
              => /\ dataPage \in RecordPages
                 /\ form' = BlankForm
                 /\ Len(requests') = Len(requests)
                 /\ SubSeq(requests', 1, Len(requests) - 1) = Remove(requests, i)
                 /\ requests'[Len(requests')].method = "GET"
                 /\ requests'[Len(requests')].url = ListUrl(dataPage)
                 /\ requests'[Len(requests')].stage = "fetch"
       /\ \A i \in 1..Len(requests) : \A body \in PostBodies :
            (/\ requests[i].method = "POST"
             /\ requests[i].stage = "json"
             /\ ~SubmissionSucceeds(i, body)
             /\ JsonSettles(i, body))
              => requests' = Remove(requests, i)
       /\ \A i \in 1..Len(requests) :
            (requests[i].method = "POST" /\ FetchSettles(i, "reject"))
              => requests' = Remove(requests, i)]_vars

\* the refresh started by a successful submission is the only call outstanding,
\* after the first refresh has rendered the table
C9_Witness ==
    /\ dataPage \in RecordPages
    /\ Displayed("success", "Saved successfully.")
    /\ Len(requests) = 1
    /\ requests[1].method = "GET"
    /\ requests[1].stage = "fetch"
    /\ tbody[TableOfPage(dataPage)] # <<InitialRow>>

---------------------------------------------------------------------------
(* C10: every notification inserted into the message host is eventually     *)
(* removed, by its own expiry timer, 4 seconds after its insertion and not  *)
(* before, and exactly once: while it is displayed exactly one timer is     *)
(* pending for it, counting down from DisplaySeconds, no timer is pending   *)
(* for an element that is gone, and an element leaves the host only in the  *)
(* callback of its own timer.  No notification stays displayed forever.     *)

IsDisplayed(id) == \E k \in 1..Len(notes) : notes[k].id = id

AgeOf(id) == notes[CHOOSE k \in 1..Len(notes) : notes[k].id = id].age

C10_EveryNotificationExpiresOnce ==
    /\ \A id \in NoteIds : IsDisplayed(id) ~> ~IsDisplayed(id)
    /\ [](\A id \in NoteIds :
            IsDisplayed(id) =>
              /\ Cardinality({k \in 1..Len(notes) : notes[k].id = id}) = 1
              /\ Cardinality({t \in timeouts : t.item = id}) = 1
              /\ \A t \in timeouts :
                    t.item = id => t.left = DisplaySeconds - AgeOf(id))
    /\ [](\A t \in timeouts : IsDisplayed(t.item))
    /\ [][\A id \in NoteIds :
            (IsDisplayed(id) /\ ~IsDisplayed(id)')
              => /\ AgeOf(id) = DisplaySeconds
                 /\ Expires(id)
                 /\ Len(notes') = Len(notes) - 1]_vars

\* the first notification has expired and left the host while a later one,
\* shown during the first one's four seconds, is still displayed
C10_Witness ==
    /\ messageHost # Null
    /\ Len(notes) = 1
    /\ notes[1].id = 2
    /\ notes[1].age > 0
    /\ \A t \in timeouts : t.item = 2

---------------------------------------------------------------------------
(* C12: whenever a refresh routine takes its failure path - the GET fails,  *)
(* the body is not JSON, or the try block throws on the parsed body - the   *)
(* table bodies are what they were before the routine's step.  Violated:    *)
(* a renderer clears the body before it reads the value, so a null response *)
(* leaves an empty table, and a null record the rows that preceded it.      *)

\* the i-th call is a refresh whose continuation on body ends in its catch block
RefreshThrows(i, body) ==
    /\ requests[i].method = "GET"
    /\ requests[i].stage = "json"
    /\ \/ Rejects(body)
       \/ Apply(requests[i].fn, body, tbody, totals).threw

C12_FailurePathKeepsTable ==
    [][\A i \in 1..Len(requests) :
         messageHost # Null =>
         /\ \A outcome \in FetchOutcomes \ {"ok"} :
               (requests[i].method = "GET" /\ FetchSettles(i, outcome))
                 => tbody' = tbody
         /\ \A body \in BodiesFor(requests[i]) :
               (RefreshThrows(i, body) /\ JsonSettles(i, body))
                 => tbody' = tbody]_vars

\* a failed refresh has emptied the table and reported the failure
C12_Witness ==
    /\ page \in RecordPages
    /\ tbody[TableOfPage(page)] = <<>>
    /\ Displayed("error", GenericMessage(ListUrl(page)))

---------------------------------------------------------------------------
(* C13: in every state between two event-loop tasks, each table body is     *)
(* its initial content or the complete rendering of exactly one response:   *)
(* never rows of two responses, never a cleared body left unfilled.         *)
(* Violated: a render that throws has already cleared the body, and the     *)
(* catch block of the refresh routine leaves it so.                         *)

\* the responses a table's routine may receive
SnapshotsOf(id) ==
    CASE id = "patients-body"     -> PatientBodies
      [] id = "appointments-body" -> AppointmentBodies
      [] id = "billing-body"      -> BillBodies

\* what a table body holds after a render of one response ran to its end
CompleteRenderings(id) ==
    {RenderRows(id, v).rows :
        v \in {b \in SnapshotsOf(id) : ~Rejects(b) /\ ~RenderRows(id, b).threw}}

C13_TableIsOneCompleteRendering ==
    \A id \in TableIds :
        tbody[id] = <<InitialRow>> \/ tbody[id] \in CompleteRenderings(id)

\* a cleared body is on display while two refreshes are in flight
C13_Witness ==
    /\ page \in RecordPages
    /\ tbody[TableOfPage(page)] = <<>>
    /\ Len(requests) = 2
    /\ \A i \in 1..2 : requests[i].method = "GET"

---------------------------------------------------------------------------
(* C17: postJSON fails on every non-success status, with the response's     *)
(* error field as the message when the body has one and with "Request       *)
(* failed" when it has none, and it resolves only on a success status.  The *)
(* message and the outcome are observed through the submit handler, which   *)
(* shows error.message.  Violated: postJSON awaits response.json() before   *)
(* it looks at the status, so a body that is not JSON fails with the        *)
(* parser's message, and a null body with that of reading null.error.       *)

\* the message the claim gives a refused POST answered with body
StatedErrorText(body) ==
    IF body.kind = "object" /\ "error" \in DOMAIN body.fields
         /\ body.fields["error"] # ""
    THEN body.fields["error"]
    ELSE "Request failed"

C17_RefusedPostFailsWithErrorFieldOrGeneric ==
    [][\A i \in 1..Len(requests) : \A body \in PostBodies :
         (/\ requests[i].method = "POST"
          /\ requests[i].stage = "json"
          /\ messageHost # Null
          /\ JsonSettles(i, body))
           => /\ requests[i].status # "ok"
                    => OneNoteAdded("error", StatedErrorText(body))
              /\ OneNoteAdded("success", "Saved successfully.")
                    => requests[i].status = "ok"]_vars

\* a refused POST whose body was null is reported with the TypeError's text
C17_Witness ==
    /\ page \in RecordPages
    /\ Displayed("error", TypeErrorText)

---------------------------------------------------------------------------
(* C18: when the message host element is absent, showMessage inserts        *)
(* nothing and registers no expiry timer, and the calling flow goes on as   *)
(* stated: a successful submission still resets the form and invokes the    *)
(* refresh callback, and a failed refresh still leaves the table unchanged. *)
(* Violated in its last part only: a refresh that fails in its renderer     *)
(* has cleared the table, with or without a message host.                   *)

C18_HostAbsentIsNoOp ==
    /\ [](messageHost = Null => notes = <<>> /\ timeouts = {})
    /\ [][messageHost = Null =>
           \A i \in 1..Len(requests) :
              /\ \A body \in PostBodies :
                    (SubmissionSucceeds(i, body) /\ JsonSettles(i, body))
                      => /\ form' = BlankForm
                         /\ requests' = Append(Remove(requests, i),
                                               GetRequest(requests[i].fn))
              /\ \A outcome \in FetchOutcomes \ {"ok"} :
                    (requests[i].method = "GET" /\ FetchSettles(i, outcome))
                      => tbody' = tbody /\ totals' = totals
              /\ \A body \in BodiesFor(requests[i]) :
                    (RefreshThrows(i, body) /\ JsonSettles(i, body))
                      => tbody' = tbody /\ totals' = totals]_vars

\* without a message host, a failed refresh has emptied the table
C18_Witness ==
    /\ messageHost = Null
    /\ page \in RecordPages
    /\ tbody[TableOfPage(page)] = <<>>
    /\ notes = <<>>
    /\ timeouts = {}

---------------------------------------------------------------------------
(* C20: the script changes the form's fields only in the handler of a       *)
(* successful POST response, in the step in which that response arrives: a  *)
(* step that changes the form is the user's typing or such a handler, every *)
(* such handler leaves the form reset, and so no timer tick, refresh,       *)
(* expiry or failed submission touches it.  Of two submissions in flight,   *)
(* the form is reset exactly when one of them succeeds.                     *)

\* the step is the handler of a successful POST response
SuccessHandlerRuns ==
    \E i \in 1..Len(requests) : \E body \in PostBodies :
        SubmissionSucceeds(i, body) /\ JsonSettles(i, body)

C20_FormChangesOnlyOnSuccess ==
    [][/\ form' # form => TypeInForm \/ SuccessHandlerRuns
       /\ SuccessHandlerRuns => form' = BlankForm]_vars

\* of two submissions one has failed and the other is still in flight: the
\* form keeps what the user typed
C20_Witness ==
    /\ form = FilledForm
    /\ \E k \in 1..Len(notes) : notes[k].kind = "error" /\ notes[k].text = "Name required"
    /\ \E i \in 1..Len(requests) : requests[i].method = "POST"

---------------------------------------------------------------------------
(* C16: as stated - submissions from one form are independent: a submit     *)
(* event while a POST is outstanding issues a second POST, and each         *)
(* submission yields exactly one notification, success or error, by its own *)
(* outcome alone.  Violated when the document has no message host: no       *)
(* submission then yields any notification.                                 *)

\* the notification the i-th call, a submission answered with body, ends in
OutcomeKind(i, body) ==
    IF requests[i].status = "ok" /\ ~Rejects(body) THEN "success" ELSE "error"

OutcomeText(i, body) ==
    IF requests[i].status = "ok" /\ ~Rejects(body)
    THEN "Saved successfully."
    ELSE PostErrorText(body)

\* the step took the i-th call away and left every other call as it was
OnlyCallEnded(i) ==
    /\ Len(requests') >= Len(requests) - 1
    /\ SubSeq(requests', 1, Len(requests) - 1) = Remove(requests, i)

C16_AsStated ==
    [][\A i \in 1..Len(requests) :
         requests[i].method = "POST" =>
           /\ FetchSettles(i, "reject")
                => OneNoteAdded("error", NetworkErrorText) /\ OnlyCallEnded(i)
           /\ \A body \in PostBodies :
                 JsonSettles(i, body)
                   => /\ OneNoteAdded(OutcomeKind(i, body), OutcomeText(i, body))
                      /\ OnlyCallEnded(i)]_vars

(* C16: a submit event is accepted whether or not a POST is outstanding and *)
(* issues one more POST; each submission ends by its own outcome alone,     *)
(* leaving every other outstanding call as it was, and, when the document   *)
(* holds the message host, with exactly one notification: success for a     *)
(* success status with a JSON body, else an error with its own message.     *)
(* Without a message host no notification is produced.                      *)
C16_SubmissionsAreIndependent ==
    /\ [](\A k \in 1..Len(listeners) :
             Len(requests) < MaxInFlight
               => ENABLED <<Submit(k) /\ UNCHANGED hist>>_vars)
    /\ [][\A k \in 1..Len(listeners) :
             Submit(k) => requests' = Append(requests,
                                             PostRequest(listeners[k].endpoint,
                                                         listeners[k].onSuccess))]_vars
    /\ [][\A i \in 1..Len(requests) :
            requests[i].method = "POST" =>
              /\ FetchSettles(i, "reject")
                   => /\ OnlyCallEnded(i)
                      /\ IF messageHost # Null
                         THEN OneNoteAdded("error", NetworkErrorText)
                         ELSE notes' = notes
              /\ \A body \in PostBodies :
                    JsonSettles(i, body)
                      => /\ OnlyCallEnded(i)
                         /\ IF messageHost # Null
                            THEN OneNoteAdded(OutcomeKind(i, body),
                                              OutcomeText(i, body))
                            ELSE notes' = notes]_vars

\* of two submissions in flight together, one has been refused and shown
\* its error while the other, answered with a success status, is still awaited
C16_Witness ==
    /\ Len(notes) = 1
    /\ notes[1].kind = "error"
    /\ notes[1].text = "Name required"
    /\ Len(requests) = 1
    /\ requests[1].method = "POST"
    /\ requests[1].stage = "json"
    /\ requests[1].status = "ok"

---------------------------------------------------------------------------
(* C15: requests are neither retried nor coalesced.  Step by step: on a     *)
(* known page the bootstrap issues one GET, every timer tick one GET, every *)
(* successful submission one GET and every submit event one POST, each      *)
(* added to the calls already outstanding, and no other step - a failed or  *)
(* answered request, an expiry, typing - issues anything.  So the GETs      *)
(* issued number 1 + ticks + successful submissions, and the POSTs the      *)
(* submit events.  A tick is accepted while earlier GETs are outstanding.   *)

\* the step moved the i-th call from its first await to its second and
\* changed no other call
OnlyCallAdvanced(i) ==
    /\ Len(requests') = Len(requests)
    /\ \A j \in 1..Len(requests) : j # i => requests'[j] = requests[j]
    /\ requests'[i].method = requests[i].method
    /\ requests'[i].url = requests[i].url
    /\ requests[i].stage = "fetch"
    /\ requests'[i].stage = "json"

C15_RequestsNeitherRetriedNorCoalesced ==
    /\ [](\A k \in 1..Len(intervals) :
             Len(requests) < MaxInFlight
               => ENABLED <<IntervalCallback(k) /\ UNCHANGED hist>>_vars)
    /\ [][/\ Bootstrap =>
               requests' = IF page \in KnownPages
                           THEN <<GetRequest(PageRefresh(page))>> ELSE <<>>
          /\ \A k \in 1..Len(intervals) :
                IntervalCallback(k) =>
                  requests' = Append(requests, GetRequest(PageRefresh(page)))
          /\ \A k \in 1..Len(listeners) :
                Submit(k) =>
                  requests' = Append(requests,
                                     PostRequest(PageFormEndpoint(page),
                                                 PageRefresh(page)))
          /\ (TimeoutFires \/ TypeInForm) => requests' = requests]_vars
    /\ [][\A i \in 1..Len(requests) :
             /\ \A outcome \in FetchOutcomes :
                   FetchSettles(i, outcome) =>
                     requests' = Remove(requests, i) \/ OnlyCallAdvanced(i)
             /\ \A body \in BodiesFor(requests[i]) :
                   JsonSettles(i, body) =>
                     requests' = IF SubmissionSucceeds(i, body)
                                 THEN Append(Remove(requests, i),
                                             GetRequest(PageRefresh(page)))
                                 ELSE Remove(requests, i)]_vars

\* a refresh has failed, and a tick has issued a new GET while an earlier
\* GET is still outstanding
C15_Witness ==
    /\ page \in KnownPages
    /\ Displayed("error", GenericMessage(ListUrl(page)))
    /\ Len(requests) = 2
    /\ \A i \in 1..2 : requests[i] = GetRequest(PageRefresh(page))

---------------------------------------------------------------------------
(* C11: as stated - the notifications displayed at one time never exceed    *)
(* the refreshes and submissions that completed within the preceding        *)
(* DisplaySeconds seconds.  Violated: a timer's callback runs at or after   *)
(* its delay, so a notification is still displayed between the end of its   *)
(* four seconds and the moment the event loop runs its expiry callback,     *)
(* when the completion that produced it has left the window.                *)

C11_AsStated == Len(notes) <= Len(window)

\* the notifications displayed for less than the display duration
FreshNotes == {k \in 1..Len(notes) : notes[k].age < DisplaySeconds}

\* the calls completed less than the display duration ago
FreshCompletions == {k \in 1..Len(window) : window[k] < DisplaySeconds}

(* C11: the notifications displayed for less than DisplaySeconds seconds    *)
(* never exceed the completions of the preceding DisplaySeconds seconds;    *)
(* any other displayed notification has its expiry timer due and stays only *)
(* until the event loop runs that callback; and one completion adds at most *)
(* one notification, also when several calls complete together.             *)
C11_NotificationsBoundedByRecentCompletions ==
    /\ [](Cardinality(FreshNotes) <= Cardinality(FreshCompletions))
    /\ [](\A k \in 1..Len(notes) :
             notes[k].age >= DisplaySeconds
               => \E t \in timeouts : t.item = notes[k].id /\ t.left = 0)
    /\ [][Len(notes') <= Len(notes) + 1]_vars

\* two refreshes have failed together: two notifications, two completions
C11_Witness ==
    /\ Len(notes) = 2
    /\ \A k \in 1..2 : notes[k].age = 0 /\ notes[k].kind = "error"
    /\ Cardinality(FreshCompletions) >= 2

---------------------------------------------------------------------------
(* C14: no response ordering is enforced.  Any outstanding call may be      *)
(* answered next, whatever was issued before it; and when the response of a *)
(* refresh arrives after that of a refresh issued later has been rendered,  *)
(* it is rendered all the same: the table then displays the older response  *)
(* in place of the newer one.  The state is reachable, also with the older  *)
(* request issued by the timer and the newer one by a successful            *)
(* submission.                                                              *)

C14_OlderResponseOverwritesNewer ==
    /\ [](\A i \in 1..Len(requests) :
             requests[i].stage = "fetch"
               => ENABLED <<FetchSettles(i, "ok") /\ UNCHANGED hist>>_vars)
    /\ [][\A i \in 1..Len(requests) : \A body \in BodiesFor(requests[i]) :
            (/\ issue[i].overtaken # "no"
             /\ Renders(i, body)
             /\ JsonSettles(i, body)
             /\ issue' = Remove(Overtake(i), i))
              => tbody'[TableOfPage(page)]
                   = RenderRows(TableOfPage(page), body).rows]_vars

\* the table displays the response of a refresh the timer issued, rendered
\* over the response of the refresh a later successful submission started
C14_Witness ==
    /\ stale = [by |-> "timer", over |-> "submit"]
    /\ tbody[TableOfPage(page)] = <<patientRow(PatientA)>>

---------------------------------------------------------------------------
(* C19: convergence under polling.  On a record page, when the server's     *)
(* collection stops changing, every GET is answered successfully and the    *)
(* timer keeps ticking, the table eventually displays the rendering of the  *)
(* server's collection and displays it forever after - responses that       *)
(* carry an older collection may still arrive, out of order, for a while.   *)

\* the table displays the rendering of collection c
Shows(c) ==
    tbody[TableOfPage(page)] = RenderRows(TableOfPage(page), AsJson(c)).rows

C19_TableConvergesToServer ==
    \A c \in Collections("patients") :
        <>[](server = c) => <>[]Shows(c)

\* the server holds two records and the table displays them, in its order,
\* with no call outstanding
C19_Witness ==
    /\ server = <<PatientB, PatientA>>
    /\ Shows(server)
    /\ requests = <<>>

=============================================================================
